---- MODULE Spec2Model ----
(***************************************************************************)
(* Model of the timelock_program on-chain program (src/lib.rs): the        *)
(* instruction decoder TimeLockInstruction::unpack, the two handlers       *)
(* initialize_time_lock and try_unlock behind process_instruction, the     *)
(* Borsh layout of TimeLockAccount, and the host runtime the handlers talk *)
(* to (account store, system create_account, Clock sysvar, program log).   *)
(***************************************************************************)
EXTENDS Integers, Sequences, FiniteSets, TLC

VARIABLES
    accounts,   \* the ledger's account store: key -> [lamports, owner, data]
    clock,      \* Clock sysvar unix_timestamp
    last,       \* what the most recent step did: instruction, result, program log
    created,    \* per key, the unlock time and clock reading of the first successful create
    disclosed   \* keys on which an unlock attempt before the most recent step disclosed

vars == <<accounts, clock, last, created, disclosed>>

----------------------------------------------------------------------------
(* Program constants and model bounds *)

SECRET_LENGTH == 256

\* the size the comment beside account_space describes, with a u64 length prefix
ACCOUNT_SPACE_prefixed == 8 + 8 + SECRET_LENGTH

\* the space of the secret alone, the timestamp forgotten
ACCOUNT_SPACE_short == SECRET_LENGTH

\* account_space = 8 + SECRET_LENGTH
ACCOUNT_SPACE == 8 + SECRET_LENGTH

\* rent.minimum_balance(account_space), in units of one rent-exempt deposit
RENT_MINIMUM == 1

\* the clock runs over 0..MaxClock
MaxClock == 2

ProgramId == "timelock_program"
SystemProgram == "system_program"
OtherProgram == "other_program"

\* addresses a timelock data account may be created at
Keys == {"lockA", "lockB"}

\* fee payers: one that can fund the rent-exempt deposit and one that cannot
Payers == {"payer", "broke_payer"}

PayerLamports(p) == IF p = "payer" THEN RENT_MINIMUM ELSE 0

None == [timestamp |-> 0, at |-> -1]

----------------------------------------------------------------------------
(* Byte-level conversions *)

RECURSIVE le_bytes(_, _)
le_bytes(v, n) == IF n = 0 THEN <<>> ELSE <<v % 256>> \o le_bytes(v \div 256, n - 1)

\* i64::to_le_bytes: two's complement, least significant byte first
to_le_bytes(v) == le_bytes(v, 8)

RECURSIVE horner(_, _, _)
horner(b, i, acc) == IF i = 0 THEN acc ELSE horner(b, i - 1, acc * 256 + b[i])

\* the eight bytes read as a magnitude: the sign is dropped
from_le_bytes_abs(b) ==
    LET v == horner(b, 7, IF b[8] >= 128 THEN b[8] - 256 ELSE b[8])
    IN  IF v < 0 THEN -v ELSE v

\* i64::from_le_bytes: the top byte carries the sign
from_le_bytes(b) ==
    horner(b, 7, IF b[8] >= 128 THEN b[8] - 256 ELSE b[8])

IsCont(s, i) == i <= Len(s) /\ s[i] >= 128 /\ s[i] <= 191

InRange(s, i, lo, hi) == i <= Len(s) /\ s[i] >= lo /\ s[i] <= hi

\* length of the UTF-8 sequence a byte starts; 0 for a byte that starts none
Utf8Width(b) ==
    IF b < 128 THEN 1
    ELSE IF b >= 194 /\ b <= 223 THEN 2
    ELSE IF b >= 224 /\ b <= 239 THEN 3
    ELSE IF b >= 240 /\ b <= 244 THEN 4
    ELSE 0

\* the bytes after lead byte s[i] are the continuation bytes it requires (no
\* overlong form, no surrogate, nothing above U+10FFFF, no truncated sequence)
LeadOk(s, i) ==
    LET b == s[i] IN
    IF b >= 194 /\ b <= 223 THEN IsCont(s, i + 1)
    ELSE IF b = 224 THEN InRange(s, i + 1, 160, 191) /\ IsCont(s, i + 2)
    ELSE IF b = 237 THEN InRange(s, i + 1, 128, 159) /\ IsCont(s, i + 2)
    ELSE IF b >= 225 /\ b <= 239 THEN IsCont(s, i + 1) /\ IsCont(s, i + 2)
    ELSE IF b = 240 THEN InRange(s, i + 1, 144, 191) /\ IsCont(s, i + 2) /\ IsCont(s, i + 3)
    ELSE IF b >= 241 /\ b <= 243 THEN IsCont(s, i + 1) /\ IsCont(s, i + 2) /\ IsCont(s, i + 3)
    ELSE IF b = 244 THEN InRange(s, i + 1, 128, 143) /\ IsCont(s, i + 2) /\ IsCont(s, i + 3)
    ELSE FALSE

\* continuation byte s[i] belongs to a lead byte at most three places before it
Covered(s, i) ==
    \E d \in 1..3 :
        /\ i - d >= 1
        /\ Utf8Width(s[i - d]) > d
        /\ \A j \in (i - d + 1)..(i - 1) : IsCont(s, j)

\* well-formed UTF-8: every byte is ASCII, a lead byte with its continuation
\* bytes, or a continuation byte of such a lead
utf8_scan(s) ==
    \A i \in 1..Len(s) :
        IF s[i] < 128 THEN TRUE
        ELSE IF IsCont(s, i) THEN Covered(s, i)
        ELSE LeadOk(s, i)

Zeros(n) == [i \in 1..n |-> 0]

\* secrets the clients of this model submit: 256 times 'A'
SecretA == [i \in 1..SECRET_LENGTH |-> 65]

\* the two-byte character U+00E9, repeated
SecretE == [i \in 1..SECRET_LENGTH |-> IF i % 2 = 1 THEN 195 ELSE 169]

\* not UTF-8: the last byte is 0xFF
SecretBad == [i \in 1..SECRET_LENGTH |-> IF i = SECRET_LENGTH THEN 255 ELSE 65]

\* not UTF-8: the last byte is 0xC3, a lead byte whose continuation byte is cut off
SecretCut == [i \in 1..SECRET_LENGTH |-> IF i = SECRET_LENGTH THEN 195 ELSE 65]

\* the scan, tabulated once for the byte strings that recur in the store
Utf8Table ==
    [s \in {SecretA, SecretE, SecretBad, SecretCut, Zeros(SECRET_LENGTH)} |-> utf8_scan(s)]

\* the UTF-8 check left out: any 256 bytes pass
from_utf8_unchecked(s) == TRUE

\* core::str::from_utf8, as a validity test
from_utf8(s) == IF s \in DOMAIN Utf8Table THEN Utf8Table[s] ELSE utf8_scan(s)

----------------------------------------------------------------------------
(* Borsh layout of TimeLockAccount { timestamp: i64, secret: [u8; 256] } *)

\* BorshSerialize: fixed-width, no length prefix
serialize(timestamp, secret) == to_le_bytes(timestamp) \o secret

\* Write for &mut [u8]: copies what fits, fails when the slice is too short
serialize_into(data, bytes) ==
    IF Len(bytes) <= Len(data)
    THEN [ok |-> TRUE, data |-> bytes \o SubSeq(data, Len(bytes) + 1, Len(data))]
    ELSE [ok |-> FALSE, data |-> data]

\* serialized size of TimeLockAccount: an i64 and a [u8; SECRET_LENGTH]
RECORD_SIZE == 8 + SECRET_LENGTH

\* deserialization that reads the record from the front and ignores bytes left over
try_from_slice_prefix(data) ==
    IF Len(data) < RECORD_SIZE
    THEN [ok |-> FALSE, timestamp |-> 0, secret |-> <<>>]
    ELSE [ok |-> TRUE,
          timestamp |-> from_le_bytes(SubSeq(data, 1, 8)),
          secret |-> SubSeq(data, 9, RECORD_SIZE)]

\* BorshDeserialize::try_from_slice: every byte must be consumed, none missing
try_from_slice(data) ==
    IF Len(data) # RECORD_SIZE
    THEN [ok |-> FALSE, timestamp |-> 0, secret |-> <<>>]
    ELSE [ok |-> TRUE,
          timestamp |-> from_le_bytes(SubSeq(data, 1, 8)),
          secret |-> SubSeq(data, 9, Len(data))]

----------------------------------------------------------------------------
(* Instruction decoder *)

Decoded(kind, err, timestamp, secret) ==
    [kind |-> kind, err |-> err, timestamp |-> timestamp, secret |-> secret]

\* tag 1 accepted only when nothing follows it
unpack_tag1_exact(rest) ==
    IF Len(rest) = 0
    THEN Decoded("TryUnlock", "", 0, <<>>)
    ELSE Decoded("Err", "InvalidInstructionData", 0, <<>>)

\* 1 => Ok(Self::TryUnlock): rest is not looked at
unpack_tag1(rest) == Decoded("TryUnlock", "", 0, <<>>)

\* TimeLockInstruction::unpack. kind is "InitializeTimeLock", "TryUnlock", "Err"
\* (with the ProgramError in err) or "Panic" (slice::split_at with mid > len).
unpack(input) ==
    IF Len(input) = 0
    THEN Decoded("Err", "InvalidInstructionData", 0, <<>>)
    ELSE LET tag == Head(input)
             rest == Tail(input)
         IN  IF tag = 0
             THEN IF Len(rest) < 8
                  THEN Decoded("Panic", "ProgramFailedToComplete", 0, <<>>)
                  ELSE LET timestamp == SubSeq(rest, 1, 8)
                           rest2 == SubSeq(rest, 9, Len(rest))
                       IN  IF Len(timestamp) # 8
                           THEN Decoded("Err", "InvalidInstructionData", 0, <<>>)
                           ELSE IF Len(rest2) # SECRET_LENGTH
                           THEN Decoded("Err", "InvalidInstructionData", 0, <<>>)
                           ELSE IF ~from_utf8(rest2)
                           THEN Decoded("Err", "InvalidAccountData", 0, <<>>)
                           ELSE Decoded("InitializeTimeLock", "", from_le_bytes(timestamp), rest2)
             ELSE IF tag = 1
             THEN unpack_tag1(rest)
             ELSE Decoded("Err", "InvalidInstructionData", 0, <<>>)

----------------------------------------------------------------------------
(* Host runtime: accounts and the system program *)

NoAccount == [lamports |-> 0, owner |-> SystemProgram, data |-> <<>>]

\* an allocation that never finds the address taken
InUse_never(acct) == FALSE

InUse(acct) == acct.lamports > 0 \/ Len(acct.data) > 0 \/ acct.owner # SystemProgram

\* system_instruction::create_account(from, to, lamports, space, owner): the new
\* address must be unused and the payer must hold the lamports; the account is
\* allocated zero-filled and assigned to owner.
create_account(store, payer_lamports, to, lamports, space, owner) ==
    IF InUse(store[to])
    THEN [err |-> "AccountAlreadyInUse", store |-> store]
    ELSE IF payer_lamports < lamports
    THEN [err |-> "InsufficientFunds", store |-> store]
    ELSE [err |-> "",
          store |-> [store EXCEPT ![to] =
                        [lamports |-> lamports, owner |-> owner, data |-> Zeros(space)]]]

\* msg!: one line of the program log
Msg(text, arg) == [text |-> text, arg |-> arg]

\* outcome of one handler: ProgramResult, the store it leaves, the log it wrote.
\* A failed instruction leaves the store as it found it.
Outcome(result, store, log) == [result |-> result, store |-> store, log |-> log]

----------------------------------------------------------------------------
(* Handlers *)

\* the create check with > for >=: a timestamp equal to now is accepted
not_in_future_strict(now, timestamp) == now > timestamp

\* the create check left out
not_in_future_unchecked(now, timestamp) == FALSE

\* if now >= timestamp { return Err(InvalidInstructionData) }
not_in_future(now, timestamp) == now >= timestamp

\* the ownership check left out
incorrect_owner_unchecked(account) == FALSE

\* if timelock_data_account.owner != program_id { return Err(IncorrectProgramId) }
incorrect_owner(account) == account.owner # ProgramId

\* the gate with > for >=: still locked at the unlock time itself
unlockable_strict(now, timestamp) == now > timestamp

\* the gate with == for >=: locked again once the unlock time has passed
unlockable_exact(now, timestamp) == now = timestamp

\* the gate left out
unlockable_always(now, timestamp) == TRUE

\* match now >= timelock_data.timestamp
unlockable(now, timestamp) == now >= timestamp

\* the false arm returning an error after its log line
locked_is_error(store, timestamp) ==
    Outcome("Custom", store, <<Msg("TimeLock will lock until {}", <<timestamp>>)>>)

\* the false arm of the match: the log line with the unlock time, then Ok(())
locked(store, timestamp) ==
    Outcome("Ok", store, <<Msg("TimeLock will lock until {}", <<timestamp>>)>>)

\* the true arm disclosing once: refused on a key an earlier attempt disclosed
unlocked_once(store, key, secret) ==
    IF key \in disclosed
    THEN Outcome("Custom", store, <<>>)
    ELSE IF ~from_utf8(secret)
    THEN Outcome("InvalidAccountData", store, <<>>)
    ELSE Outcome("Ok", store, <<Msg("TimeLock unlocked! Encryped secret: {}", secret)>>)

\* the true arm wiping the record once it has disclosed it
unlocked_consuming(store, key, secret) ==
    IF ~from_utf8(secret)
    THEN Outcome("InvalidAccountData", store, <<>>)
    ELSE Outcome("Ok", [store EXCEPT ![key].data = Zeros(Len(@))],
                 <<Msg("TimeLock unlocked! Encryped secret: {}", secret)>>)

\* the true arm of the match: the secret as UTF-8 on the log, then Ok(()); key is
\* the address of timelock_data_account
unlocked(store, key, secret) ==
    IF ~from_utf8(secret)
    THEN Outcome("InvalidAccountData", store, <<>>)
    ELSE Outcome("Ok", store, <<Msg("TimeLock unlocked! Encryped secret: {}", secret)>>)

\* initialize_time_lock(program_id, accounts, timestamp, secret); accts is the
\* instruction's account list
initialize_time_lock(accts, timestamp, secret) ==
    LET now == clock
        log0 == <<>>
    IN  IF not_in_future(now, timestamp)
        THEN Outcome("InvalidInstructionData", accounts, log0)
        ELSE IF Len(accts) < 3
        THEN Outcome("NotEnoughAccountKeys", accounts, log0)
        ELSE LET timelock_data_account == accts[1]
                 payer_account == accts[2]
                 required_lamports == RENT_MINIMUM
                 made == create_account(accounts, PayerLamports(payer_account),
                                        timelock_data_account, required_lamports,
                                        ACCOUNT_SPACE, ProgramId)
             IN  IF made.err # ""
                 THEN Outcome(made.err, accounts, log0)
                 ELSE LET acct == made.store[timelock_data_account]
                          written == serialize_into(acct.data, serialize(timestamp, secret))
                      IN  IF ~written.ok
                          THEN Outcome("BorshIoError", accounts, log0)
                          ELSE Outcome("Ok",
                                       [made.store EXCEPT ![timelock_data_account].data = written.data],
                                       Append(log0, Msg("TimeLock set to unix timestamp: {}", <<timestamp>>)))

\* try_unlock(program_id, accounts)
try_unlock(accts) ==
    IF Len(accts) < 1
    THEN Outcome("NotEnoughAccountKeys", accounts, <<>>)
    ELSE LET timelock_data_account == accounts[accts[1]] IN
         IF incorrect_owner(timelock_data_account)
         THEN Outcome("IncorrectProgramId", accounts, <<>>)
         ELSE LET timelock_data == try_from_slice(timelock_data_account.data) IN
              IF ~timelock_data.ok
              THEN Outcome("BorshIoError", accounts, <<>>)
              ELSE LET now == clock IN
                   IF unlockable(now, timelock_data.timestamp)
                   THEN unlocked(accounts, accts[1], timelock_data.secret)
                   ELSE locked(accounts, timelock_data.timestamp)

----------------------------------------------------------------------------
(* Inputs *)

\* unlock timestamps a client may ask for: any reading of the clock, or before it
Timestamps == -1..MaxClock

\* the client's encoding of the create instruction: tag, timestamp, secret
CreateData(timestamp, secret) == <<0>> \o to_le_bytes(timestamp) \o secret

\* create buffers in the wire format
WellFormed ==
    {CreateData(t, SecretA) : t \in Timestamps} \cup {CreateData(1, SecretE)}

\* unlock buffers: the tag alone, the tag with a byte after it, and the tag with
\* the payload of a create after it
UnlockData == {<<1>>, <<1, 7>>, <<1>> \o to_le_bytes(MaxClock) \o SecretA}

\* buffers that are no instruction: empty, unknown tag, tag 0 of a wrong length
\* (1, 5, 9, 264 and 266 bytes), tag 0 of the right length with a secret that is
\* not UTF-8
Malformed ==
    {<<>>, <<2>>, <<2>> \o to_le_bytes(MaxClock) \o SecretA}
    \cup {<<0>>, <<0, 1, 0, 0, 0>>, <<0>> \o to_le_bytes(MaxClock)}
    \cup {SubSeq(CreateData(MaxClock, SecretA), 1, 8 + SECRET_LENGTH),
          CreateData(MaxClock, SecretA) \o <<65>>}
    \cup {CreateData(MaxClock, SecretBad), CreateData(MaxClock, SecretCut)}

\* account lists submitted with a create: none, the data account alone, or the
\* data account, a payer and the system program
CreateLists ==
    {<<>>}
    \cup {<<k>> : k \in Keys}
    \cup {<<k, p, SystemProgram>> : k \in Keys, p \in Payers}

\* account lists submitted with an unlock: none, or the data account
UnlockLists == {<<>>} \cup {<<k>> : k \in Keys}

Request(b, a) == [data |-> b, ins |-> unpack(b), accts |-> a]

\* instructions submitted to the program: a buffer, what unpack makes of it (a
\* function of the buffer alone), and the account list
Requests ==
    {Request(b, <<k, "payer", SystemProgram>>) : b \in WellFormed, k \in Keys}
    \cup {Request(CreateData(MaxClock, SecretA), a) : a \in CreateLists}
    \cup {Request(<<1>>, a) : a \in UnlockLists}
    \cup {Request(b, <<"lockA", "payer", SystemProgram>>) : b \in Malformed \cup UnlockData}

----------------------------------------------------------------------------
(* State machine *)

UnlockedText == "TimeLock unlocked! Encryped secret: {}"
LockedText == "TimeLock will lock until {}"

\* the log holds the disclosure line / the still-locked line
Disclosed(l) == \E i \in 1..Len(l.log) : l.log[i].text = UnlockedText
StillLocked(l) == \E i \in 1..Len(l.log) : l.log[i].text = LockedText

Step(op, data, key, timestamp, result, log) ==
    [op |-> op, data |-> data, key |-> key, timestamp |-> timestamp,
     now |-> clock, result |-> result, log |-> log]

\* a step of the environment: no instruction ran
EnvStep(op) == Step(op, <<>>, "", 0, "Ok", <<>>)

Init ==
    /\ accounts = [k \in Keys |-> NoAccount]
    /\ clock = 0
    /\ last = EnvStep("none")
    /\ created = [k \in Keys |-> None]
    /\ disclosed = {}

\* the disclosures so far, the most recent step's included
Seen == IF Disclosed(last) THEN disclosed \cup {last.key} ELSE disclosed

\* the first account of the instruction, "" when there is none
KeyOf(accts) == IF Len(accts) >= 1 THEN accts[1] ELSE ""

\* process_instruction(program_id, accounts, instruction_data); ins is
\* TimeLockInstruction::unpack(instruction_data)
process_instruction(instruction_data, ins, accts) ==
    /\ clock' = clock
    /\ IF ins.kind \in {"Err", "Panic"}
       THEN /\ last' = Step("unpack", instruction_data, KeyOf(accts), 0, ins.err, <<>>)
            /\ disclosed' = Seen
            /\ UNCHANGED <<accounts, created>>
       ELSE IF ins.kind = "InitializeTimeLock"
       THEN LET out == initialize_time_lock(accts, ins.timestamp, ins.secret)
                key == KeyOf(accts)
            IN  /\ accounts' = out.store
                /\ last' = Step("InitializeTimeLock", instruction_data, key,
                                ins.timestamp, out.result,
                                <<Msg("Instruction: InitializeTimeLock", <<>>)>> \o out.log)
                /\ created' = IF out.result = "Ok" /\ created[key] = None
                              THEN [created EXCEPT ![key] =
                                       [timestamp |-> ins.timestamp, at |-> clock]]
                              ELSE created
                /\ disclosed' = Seen
       ELSE LET out == try_unlock(accts)
                key == KeyOf(accts)
            IN  /\ accounts' = out.store
                /\ last' = Step("TryUnlock", instruction_data, key, 0, out.result, out.log)
                /\ disclosed' = Seen
                /\ UNCHANGED created

\* the Clock sysvar advances
Tick ==
    /\ clock < MaxClock
    /\ clock' = clock + 1
    /\ last' = EnvStep("Tick")
    /\ disclosed' = Seen
    /\ UNCHANGED <<accounts, created>>

\* another client creates an account at k through the system program, with any
\* owner and size
SystemCreate(k, owner, space) ==
    LET made == create_account(accounts, RENT_MINIMUM, k, RENT_MINIMUM, space, owner) IN
    /\ made.err = ""
    /\ accounts' = made.store
    /\ last' = EnvStep("SystemCreate")
    /\ disclosed' = Seen
    /\ UNCHANGED <<clock, created>>

\* the owner of an account writes its data; this program never writes after create
ForeignWrite(k, data) ==
    /\ accounts[k].owner = OtherProgram
    /\ Len(data) = Len(accounts[k].data)
    /\ accounts' = [accounts EXCEPT ![k].data = data]
    /\ last' = EnvStep("ForeignWrite")
    /\ disclosed' = Seen
    /\ UNCHANGED <<clock, created>>

\* accounts other clients allocate: for this program or another, shorter than a
\* record, of the record's size, or one byte longer
Allocations ==
    ({ProgramId, OtherProgram} \X {8, RECORD_SIZE}) \cup {<<ProgramId, RECORD_SIZE + 1>>}

Next ==
    \/ \E r \in Requests : process_instruction(r.data, r.ins, r.accts)
    \/ Tick
    \/ \E k \in Keys, a \in Allocations : SystemCreate(k, a[1], a[2])
    \/ \E k \in Keys : ForeignWrite(k, serialize(0, SecretA))

Spec == Init /\ [][Next]_vars

\* the clock keeps advancing
LiveSpec == Spec /\ WF_vars(Tick)

----------------------------------------------------------------------------
(* Claims *)

IsInstruction(l) == l.op \in {"unpack", "InitializeTimeLock", "TryUnlock"}

\* the record the store holds at k, as try_unlock reads it
Stored(k) == try_from_slice(accounts[k].data)

\* the secret bytes the store holds at k: the 256 bytes after the timestamp
StoredSecret(k) == SubSeq(accounts[k].data, 9, 8 + SECRET_LENGTH)

\* the secret bytes of a create buffer: the 256 bytes after tag and timestamp
SuppliedSecret(l) == SubSeq(l.data, 10, 9 + SECRET_LENGTH)

\* an unlock attempt on a record this program created
UnlockOfCreated(l) == l.op = "TryUnlock" /\ l.key \in Keys /\ created[l.key] # None

\* C1: an unlock attempt on a created record with unlock time T, at clock reading
\* t, logs the still-locked line (and only it) when t < T and the disclosure line
\* carrying exactly the stored secret bytes when t >= T, t = T included.
C1_TimeGate ==
    UnlockOfCreated(last) =>
        LET T == created[last.key].timestamp IN
        /\ last.result = "Ok"
        /\ IF last.now < T
           THEN last.log = <<Msg(LockedText, <<T>>)>>
           ELSE last.log = <<Msg(UnlockedText, StoredSecret(last.key))>>

\* reached: a disclosure at the exact boundary t = T
C1_Witness ==
    /\ UnlockOfCreated(last)
    /\ last.now = created[last.key].timestamp
    /\ last.log = <<Msg(UnlockedText, StoredSecret(last.key))>>

\* a log line that carries 256 bytes of secret
SecretLine(m) == Len(m.arg) = SECRET_LENGTH

\* C2: whatever step ran last, a line of its log carries secret bytes only if the
\* step was an unlock attempt on an account of the program whose stored record has
\* that secret and an unlock time the clock had reached when the attempt ran.
C2_DisclosedOnlyWhenDue ==
    \A i \in 1..Len(last.log) :
        SecretLine(last.log[i]) =>
            /\ last.op = "TryUnlock"
            /\ last.key \in Keys
            /\ accounts[last.key].owner = ProgramId
            /\ Stored(last.key).ok
            /\ StoredSecret(last.key) = last.log[i].arg
            /\ last.now >= Stored(last.key).timestamp

\* reached: a disclosure made after the unlock time had passed
C2_Witness ==
    /\ UnlockOfCreated(last)
    /\ Disclosed(last)
    /\ last.now > created[last.key].timestamp

\* the account at the create's data address is the program's and holds exactly
\* the supplied unlock time and secret
HoldsSupplied(l) ==
    /\ l.key \in Keys
    /\ accounts[l.key].owner = ProgramId
    /\ accounts[l.key].data = to_le_bytes(l.timestamp) \o SuppliedSecret(l)
    /\ Stored(l.key) = [ok |-> TRUE, timestamp |-> l.timestamp, secret |-> SuppliedSecret(l)]

\* C3 as stated: a create fails with the timestamp error when unlock_time <= now
\* and otherwise succeeds, the record holding exactly the supplied fields.
C3_Original ==
    last.op = "InitializeTimeLock" =>
        IF last.timestamp <= last.now
        THEN last.result = "InvalidInstructionData"
        ELSE last.result = "Ok" /\ HoldsSupplied(last)

AllocationErrors == {"NotEnoughAccountKeys", "AccountAlreadyInUse", "InsufficientFunds"}

\* C3 amended: a create fails with the timestamp error when unlock_time <= now;
\* when unlock_time > now it passes the timestamp check and either the
\* allocation step rejects it or it succeeds, and on success the record holds
\* exactly the supplied unlock_time and secret.
C3_CreateOutcome ==
    last.op = "InitializeTimeLock" =>
        IF last.timestamp <= last.now
        THEN last.result = "InvalidInstructionData"
        ELSE \/ last.result \in AllocationErrors
             \/ last.result = "Ok" /\ HoldsSupplied(last)

\* reached: a successful create whose record holds the supplied fields
C3_Witness ==
    /\ last.op = "InitializeTimeLock"
    /\ last.timestamp > last.now
    /\ last.result = "Ok"
    /\ HoldsSupplied(last)

\* C4: a create whose unlock_time is not after the clock reading fails and
\* leaves the whole account store as it was.
C4_FailedCreateWritesNothing ==
    [][(last'.op = "InitializeTimeLock" /\ last'.timestamp <= last'.now)
          => (last'.result = "InvalidInstructionData" /\ accounts' = accounts /\ created' = created)]_vars

\* reached: a create rejected for its timestamp that named an unused address, a
\* funded payer and the system program
C4_Witness ==
    /\ last.op = "InitializeTimeLock"
    /\ last.timestamp <= last.now
    /\ last.result = "InvalidInstructionData"
    /\ last.key \in Keys
    /\ accounts[last.key] = NoAccount

\* C5: once a create has succeeded at an address, no step changes the account
\* there, and its record keeps the unlock time of that create.
C5_RecordImmutable ==
    [][\A k \in Keys :
          created[k] # None =>
              /\ accounts'[k] = accounts[k]
              /\ created'[k] = created[k]
              /\ accounts[k].owner = ProgramId
              /\ Stored(k).ok
              /\ Stored(k).timestamp = created[k].timestamp]_vars

\* reached: a second create, with another unlock time, aimed at an address that
\* holds a record, and rejected by the allocation step
C5_Witness ==
    /\ last.op = "InitializeTimeLock"
    /\ last.key \in Keys
    /\ created[last.key] # None
    /\ last.result = "AccountAlreadyInUse"
    /\ last.timestamp # created[last.key].timestamp
    /\ SuppliedSecret(last) # StoredSecret(last.key)

\* C6: an unlock attempt made at the clock reading at which the record was
\* created succeeds and reports still locked, never the secret.
C6_StartsLocked ==
    (UnlockOfCreated(last) /\ last.now = created[last.key].at) =>
        /\ last.result = "Ok"
        /\ StillLocked(last)
        /\ ~Disclosed(last)

\* reached: such an attempt, answered still locked
C6_Witness ==
    /\ UnlockOfCreated(last)
    /\ last.now = created[last.key].at
    /\ last.result = "Ok"
    /\ StillLocked(last)

\* C7: an unlock attempt on a key on which an earlier attempt disclosed
\* discloses again.
C7_Irreversible ==
    (last.op = "TryUnlock" /\ last.key \in disclosed) =>
        (last.result = "Ok" /\ Disclosed(last))

\* reached: a second disclosure on a created record, after the clock has moved
\* past the unlock time
C7_Witness ==
    /\ UnlockOfCreated(last)
    /\ last.key \in disclosed
    /\ Disclosed(last)
    /\ last.now > created[last.key].timestamp

\* an unlock attempt on k in this state would disclose
Unlockable(k) == Disclosed(try_unlock(<<k>>))

\* C8: with the clock advancing, every created record reaches a state in which
\* an unlock attempt discloses.
C8_EventuallyUnlockable ==
    \A k \in Keys : (created[k] # None) ~> Unlockable(k)

\* reached: a created record that a clock tick has just made unlockable
C8_Witness ==
    \E k \in Keys :
        /\ created[k] # None
        /\ last.op = "Tick"
        /\ clock = created[k].timestamp
        /\ Unlockable(k)

\* C9: an unlock attempt on an account the program does not own fails with
\* IncorrectProgramId, whether or not its data parses, and logs nothing.
C9_IncorrectOwner ==
    (last.op = "TryUnlock" /\ last.key \in Keys /\ accounts[last.key].owner # ProgramId) =>
        (last.result = "IncorrectProgramId" /\ last.log = <<>>)

\* reached: the rejected attempt on a foreign account whose data parses as a
\* record with a secret and an unlock time already reached
C9_Witness ==
    /\ last.op = "TryUnlock"
    /\ last.key \in Keys
    /\ accounts[last.key].owner = OtherProgram
    /\ Stored(last.key).ok
    /\ StoredSecret(last.key) = SecretA
    /\ last.now >= Stored(last.key).timestamp
    /\ last.result = "IncorrectProgramId"

\* the buffers C10 speaks of: empty, a tag other than 0 or 1, tag 0 with a total
\* length other than 1 + 8 + 256
C10_Case(data) ==
    \/ Len(data) = 0
    \/ data[1] \notin {0, 1}
    \/ data[1] = 0 /\ Len(data) # 1 + 8 + SECRET_LENGTH

\* C10 as stated: an instruction with such a buffer returns a Malformed error
\* (InvalidInstructionData or InvalidAccountData) and changes nothing.
C10_MalformedRejected ==
    [][(IsInstruction(last') /\ C10_Case(last'.data))
          => /\ last'.result \in {"InvalidInstructionData", "InvalidAccountData"}
             /\ accounts' = accounts
             /\ created' = created]_vars

----------------------------------------------------------------------------
\* the step was an instruction whose buffer has tag 0 and the create length, with
\* 256 secret bytes that are not UTF-8
C11_Case ==
    /\ IsInstruction(last)
    /\ Len(last.data) = 1 + 8 + SECRET_LENGTH
    /\ last.data[1] = 0
    /\ ~utf8_scan(SuppliedSecret(last))

\* C11: an instruction whose buffer has tag 0 and the create length but a secret
\* that is not valid UTF-8 fails in the decoder with an error and never runs the
\* create handler, and no account holds the record the buffer describes.
C11_NonUtf8Rejected ==
    C11_Case =>
        /\ last.op = "unpack"
        /\ last.result = "InvalidAccountData"
        /\ \A k \in Keys : accounts[k].data # Tail(last.data)

C11_Witness ==
    /\ C11_Case
    /\ last.data = CreateData(MaxClock, SecretCut)
    /\ last.result = "InvalidAccountData"
    /\ clock < MaxClock

----------------------------------------------------------------------------
\* the step was an instruction whose buffer is in the create wire format: tag 0,
\* 8 timestamp bytes, 256 bytes of valid UTF-8
C12_Case ==
    /\ IsInstruction(last)
    /\ Len(last.data) = 1 + 8 + SECRET_LENGTH
    /\ last.data[1] = 0
    /\ utf8_scan(SuppliedSecret(last))

\* C12: a buffer in the create wire format decodes to InitializeTimeLock; its
\* timestamp is the signed little-endian value of bytes [1..9), its secret is
\* bytes [9..265), and encoding the decoded fields again gives the 264 bytes
\* after the tag.
C12_RoundTrip ==
    C12_Case =>
        LET ins == unpack(last.data) IN
        /\ last.op = "InitializeTimeLock"
        /\ ins.kind = "InitializeTimeLock"
        /\ ins.timestamp = last.timestamp
        /\ to_le_bytes(last.timestamp) = SubSeq(last.data, 2, 9)
        /\ ins.secret = SubSeq(last.data, 10, 9 + SECRET_LENGTH)
        /\ Len(Tail(last.data)) = 8 + SECRET_LENGTH
        /\ to_le_bytes(ins.timestamp) \o ins.secret = Tail(last.data)

C12_Witness ==
    /\ C12_Case
    /\ last.op = "InitializeTimeLock"
    /\ last.timestamp = -1
    /\ SubSeq(last.data, 2, 9) = [i \in 1..8 |-> 255]

----------------------------------------------------------------------------
----------------------------------------------------------------------------
\* the step was an unlock attempt on an account the program owns that holds a
\* record of the right size
C14_Case ==
    /\ last.op = "TryUnlock"
    /\ last.key \in Keys
    /\ accounts[last.key].owner = ProgramId
    /\ Len(accounts[last.key].data) = 8 + SECRET_LENGTH

\* C14: an unlock attempt on a program-owned, well-formed record made at a clock
\* reading before the record's unlock time returns Ok, and its log is the one
\* line that reports the unlock time.
C14_StillLockedIsSuccess ==
    (C14_Case /\ last.now < Stored(last.key).timestamp) =>
        /\ last.result = "Ok"
        /\ last.log = <<Msg(LockedText, <<Stored(last.key).timestamp>>)>>

C14_Witness ==
    /\ C14_Case
    /\ last.now = 0
    /\ Stored(last.key).timestamp = 1
    /\ StoredSecret(last.key) = SecretE
    /\ last.result = "Ok"

----------------------------------------------------------------------------
\* the class of the most recent step in the failure taxonomy, by its cause: the
\* decoder rejected the buffer, the create's timestamp was not after the clock
\* reading, the unlock's account is not the program's, the unlock's account does
\* not hold a record, or the instruction succeeded
FailureClass ==
    IF last.op = "unpack" THEN "Malformed"
    ELSE IF last.op = "InitializeTimeLock" /\ last.timestamp <= last.now
    THEN "TimestampNotInFuture"
    ELSE IF last.op = "TryUnlock" /\ last.key \in Keys /\ accounts[last.key].owner # ProgramId
    THEN "IncorrectOwner"
    ELSE IF last.op = "TryUnlock" /\ last.key \in Keys
            /\ Len(accounts[last.key].data) # 8 + SECRET_LENGTH
    THEN "DeserializationFailure"
    ELSE IF IsInstruction(last) /\ last.result = "Ok" THEN "Success"
    ELSE "Other"

\* C15 as stated: two instructions in a row that fall in different classes of the
\* taxonomy (success included) return different results to the caller.
C15_Distinguishable ==
    [][(/\ FailureClass # "Other"
        /\ FailureClass' # "Other"
        /\ FailureClass # FailureClass') => last.result # last'.result]_vars

----------------------------------------------------------------------------
\* the step was an instruction whose buffer starts with tag 1
C16_Case == IsInstruction(last) /\ Len(last.data) >= 1 /\ last.data[1] = 1

\* C16: an instruction whose buffer starts with tag 1 runs the unlock handler,
\* whatever follows the tag, and the bytes after the tag do not bear on the
\* result: it is the result of the unlock on the account given.
C16_Tag1IsTryUnlock ==
    C16_Case =>
        /\ last.op = "TryUnlock"
        /\ unpack(last.data).kind = "TryUnlock"
        /\ last.key \in Keys =>
               /\ last.result = try_unlock(<<last.key>>).result
               /\ last.log = try_unlock(<<last.key>>).log

C16_Witness ==
    /\ C16_Case
    /\ Len(last.data) = 1 + 8 + SECRET_LENGTH
    /\ last.op = "TryUnlock"
    /\ Disclosed(last)

----------------------------------------------------------------------------
\* C17: a step that runs the unlock handler, whatever it returns, leaves every
\* account of the store as it was: owner, balance and data bytes.
C17_UnlockIsRead ==
    [][last'.op = "TryUnlock" => accounts' = accounts]_vars

C17_Witness ==
    /\ UnlockOfCreated(last)
    /\ last.key = "lockB"
    /\ Disclosed(last)
    /\ last.log[1].arg = SecretA
    /\ StoredSecret(last.key) = SecretA
    /\ created["lockA"] # None
    /\ StoredSecret("lockA") = SecretE

----------------------------------------------------------------------------
\* the step was an unlock attempt on an account the program owns whose data is
\* not of the record's size
C18_Case ==
    /\ last.op = "TryUnlock"
    /\ last.key \in Keys
    /\ accounts[last.key].owner = ProgramId
    /\ Len(accounts[last.key].data) # 8 + SECRET_LENGTH

\* C18: an unlock attempt on a program-owned account whose bytes are no record
\* fails with the deserialization error at every clock reading, and its log is
\* empty.
C18_DeserializationFailure ==
    C18_Case => last.result = "BorshIoError" /\ last.log = <<>>

C18_Witness ==
    /\ C18_Case
    /\ Len(accounts[last.key].data) = 8 + SECRET_LENGTH + 1
    /\ last.now = MaxClock
    /\ last.result = "BorshIoError"

----------------------------------------------------------------------------
\* C19: the record at every address a create has succeeded on holds a secret
\* that is valid UTF-8, and an unlock attempt on it at or after its unlock time
\* returns Ok with the secret on the log, never the UTF-8 error.
C19_StoredSecretIsUtf8 ==
    /\ \A k \in Keys : created[k] # None => utf8_scan(StoredSecret(k))
    /\ (UnlockOfCreated(last) /\ last.now >= created[last.key].timestamp) =>
            /\ last.result = "Ok"
            /\ Disclosed(last)
            /\ last.log = <<Msg(UnlockedText, StoredSecret(last.key))>>

C19_Witness ==
    /\ UnlockOfCreated(last)
    /\ last.now > created[last.key].timestamp
    /\ StoredSecret(last.key) = SecretE
    /\ utf8_scan(StoredSecret(last.key))
    /\ Disclosed(last)

----------------------------------------------------------------------------
\* the result and log of an unlock attempt as a function of the account it is
\* given and the clock reading, and of nothing else
GateOutcome(acct, now) ==
    IF acct.owner # ProgramId
    THEN [result |-> "IncorrectProgramId", log |-> <<>>]
    ELSE IF Len(acct.data) # 8 + SECRET_LENGTH
    THEN [result |-> "BorshIoError", log |-> <<>>]
    ELSE LET timestamp == from_le_bytes(SubSeq(acct.data, 1, 8))
             secret == SubSeq(acct.data, 9, 8 + SECRET_LENGTH)
         IN  IF now < timestamp
             THEN [result |-> "Ok", log |-> <<Msg(LockedText, <<timestamp>>)>>]
             ELSE IF from_utf8(secret)
             THEN [result |-> "Ok", log |-> <<Msg(UnlockedText, secret)>>]
             ELSE [result |-> "InvalidAccountData", log |-> <<>>]

\* C20: the result and log of every unlock attempt are those GateOutcome gives
\* for the account and the clock reading, whatever steps came before: earlier
\* attempts, what they returned, and the rest of the store do not bear on it.
C20_OutcomeIsFunctionOfRecordAndTime ==
    (last.op = "TryUnlock" /\ last.key \in Keys) =>
        LET out == GateOutcome(accounts[last.key], last.now)
        IN  last.result = out.result /\ last.log = out.log

C20_Witness ==
    /\ UnlockOfCreated(last)
    /\ last.key \in disclosed
    /\ last.now = MaxClock
    /\ created[last.key].timestamp = 1
    /\ created[last.key].at = 0
    /\ last.log = GateOutcome(accounts[last.key], last.now).log
    /\ Disclosed(last)

====
